---- MODULE Spec2Model ----
(***************************************************************************)
(* Telegram -> Zulip bridge (zulip_bot.py): the MessageHandler             *)
(* process_message, the request builder/submitter zulip_api_request and    *)
(* the sqlite table "messages" (tid INTEGER PRIMARY KEY, zid INTEGER).     *)
(*                                                                         *)
(* Time is in seconds since the Unix epoch (UTC).  An optional Python      *)
(* object is a tuple of length 0 (None) or 1 (the object), so that         *)
(* fetchone() gives << >> or <<zid>>; a Zulip result without an id has     *)
(* id 0.                                                                   *)
(***************************************************************************)
EXTENDS Integers, Sequences, FiniteSets, TLC

VARIABLES
    now,          \* the wall clock read by datetime.datetime.now() (UTC seconds)
    ticks,        \* how many times the clock has advanced (bounded)
    messages,     \* the sqlite table: a set of rows [tid, zid]
    zulip_last_id, \* the Zulip stream holds the messages with ids 1..zulip_last_id
    zulip_topics, \* the stream and topic of each of them, by id
    last,         \* what the most recent call of process_message did
    tr,           \* a content list and the request dicts built from it
    workers       \* where each concurrent dispatch is in db_add_id

vars == <<now, ticks, messages, zulip_last_id, zulip_topics, last, tr, workers>>

----------------------------------------------------------------------------
\* Bounds of the model

\* Telegram message ids are 1..MaxMsgId
MaxMsgId == 2
\* Zulip accepts at most this many messages (ids 1..MaxZulipId)
MaxZulipId == 2
\* the clock advances at most this many times
MaxTicks == 1
\* a message carries at most this many entities
MaxEntities == 1
\* at most this many dispatches run at the same time
MaxWorkers == 2

----------------------------------------------------------------------------
\* Program constants and configuration

\* Python's None, and the test "x is not None" / truthiness of an optional
None == << >>
Some(x) == <<x>>

\* relativedelta(minutes=60), in seconds
_60min_delta == 3600

\* local_tz = tz.gettz("Europe/Zurich"): CET (UTC+1) in winter, CEST (UTC+2)
\* between the last Sunday of March 01:00 UTC and the last Sunday of October
\* 01:00 UTC.  The two transitions of 2021:
DstBegin == 1616893200
DstEnd == 1635642000

\* 2021-06-15 21:30:00 UTC (23:30 local time), far from both transitions and
\* half an hour before the local midnight
Midsummer == DstBegin + 6899400

utcoffset(t) == IF t >= DstBegin /\ t < DstEnd THEN 7200 ELSE 3600

\* datetime.astimezone(local_tz): the local wall-clock reading of instant t.
\* Arithmetic and comparison of two datetimes that share one tzinfo work on
\* this reading only (Python ignores the offset when tzinfo is the same).
astimezone(t) == t + utcoffset(t)

\* users_mapping, loaded once from the zulip_users JSON file
Users == {"alice", "bob"}
users_mapping == [u \in {"alice"} |-> "Alice Zulip"]

\* the instants at which the process may be started
StartTimes == {Midsummer, DstBegin + 600, DstEnd + 600}

\* how old (now - message.date) an edited message may be when its edit arrives
EditAges == {60, _60min_delta, _60min_delta + 1}

----------------------------------------------------------------------------
\* Telegram updates

MsgIds == 1 .. MaxMsgId

MediaKinds == {"photo", "document", "video", "video_note", "audio", "voice"}
\* "other" stands for content the bot does not know (sticker, location, ...)
Kinds == {"text"} \cup MediaKinds \cup {"other"}

EntityTypes == {"text_mention", "mention"}
Entity == [type : EntityTypes, user : Users]

RECURSIVE SeqsUpTo(_, _)
SeqsUpTo(S, n) ==
    IF n = 0 THEN {<< >>}
    ELSE LET shorter == SeqsUpTo(S, n - 1)
         IN  shorter \cup {Append(s, x) : s \in shorter, x \in S}

\* The @usernames that occur in a text, in order: Telegram produces one
\* 'mention' entity for each of them.
RECURSIVE Usernames(_)
Usernames(ents) ==
    IF ents = << >> THEN << >>
    ELSE IF Head(ents).type = "mention"
         THEN <<Head(ents).user>> \o Usernames(Tail(ents))
         ELSE Usernames(Tail(ents))

\* A text: the string and, for re.search, the @usernames that occur in it
RECURSIVE AtNames(_)
AtNames(names) ==
    IF names = << >> THEN "" ELSE " @" \o Head(names) \o AtNames(Tail(names))
Text(names) == [str |-> "hello" \o AtNames(names), usernames |-> names]

\* every source message has one sender, who is also the one who edits it
SenderOf(id) == IF id = 1 THEN "alice" ELSE "bob"

\* a telegram file object (PhotoSize, Document, Video, ...)
FileOf(name) == [file_id |-> name]

\* telegram.Message: exactly one kind of content is set; entities belong to
\* the text of a text message.
Message(id, date, kind, ents) ==
    [message_id |-> id,
     date       |-> date,
     from_user  |-> [first_name |-> SenderOf(id)],
     text       |-> IF kind = "text" THEN Some(Text(Usernames(ents))) ELSE None,
     caption    |-> None,
     reply_to_message |-> None,
     entities   |-> IF kind = "text" THEN ents ELSE << >>,
     photo      |-> IF kind = "photo" THEN <<FileOf("thumb"), FileOf("file")>> ELSE << >>,
     document   |-> IF kind = "document" THEN Some(FileOf("file")) ELSE None,
     video      |-> IF kind = "video" THEN Some(FileOf("file")) ELSE None,
     video_note |-> IF kind = "video_note" THEN Some(FileOf("file")) ELSE None,
     audio      |-> IF kind = "audio" THEN Some(FileOf("file")) ELSE None,
     voice      |-> IF kind = "voice" THEN Some(FileOf("file")) ELSE None]

\* What an update carries: update.edited_message is set for an edit, and
\* update.effective_message is the (edited) message.  A new message arrives
\* when it is written (its date is now); an edit arrives some time later.
Updates(t) ==
    LET Contents == {<<"text", ents>> : ents \in SeqsUpTo(Entity, MaxEntities)}
                    \cup {<<kind, << >> >> : kind \in Kinds \ {"text"}}
        Arrivals == {<<FALSE, 0>>} \cup {<<TRUE, age>> : age \in EditAges}
    IN  {[is_edit |-> x[1], message |-> Message(id, t - x[2], c[1], c[2])] :
            x \in Arrivals, id \in MsgIds, c \in Contents}

----------------------------------------------------------------------------
\* What the environment may answer: the outcome of a Zulip API call, and
\* what goes wrong in sqlite during one db_run_query
ZulipAnswers == {"success", "error"}
DbFaults == {"none", "connect", "execute"}

NoException == "none"

\* log(severity, msg): the request to log one record
LogRecord(severity, what, who) == [severity |-> severity, what |-> what, who |-> who]

----------------------------------------------------------------------------
\* Database utils

INSERT_OR_IGNORE == "INSERT OR IGNORE INTO messages VALUES (?, ?)"
SELECT_ZID == "SELECT zid FROM messages WHERE tid=?"

\* db_connect: a failed sqlite3.connect is logged and None is returned
db_connect(fault) ==
    IF fault = "connect"
    THEN [connection |-> None, logs |-> <<LogRecord("ERROR", "sqlite3", "")>>]
    ELSE [connection |-> Some("connection"), logs |-> << >>]

\* execute with "INSERT OR REPLACE" in the place of "INSERT OR IGNORE"
execute_replace(table, query, params) ==
    IF query = INSERT_OR_IGNORE
    THEN [table |-> {r \in table : r.tid # params[1]}
                      \cup {[tid |-> params[1], zid |-> params[2]]},
          rows  |-> {}]
    ELSE [table |-> table,
          rows  |-> {<<r.zid>> : r \in {x \in table : x.tid = params[1]}}]

\* execute on a table whose tid is not a key: every INSERT adds its row
execute_no_key(table, query, params) ==
    IF query = INSERT_OR_IGNORE
    THEN [table |-> table \cup {[tid |-> params[1], zid |-> params[2]]},
          rows  |-> {}]
    ELSE [table |-> table,
          rows  |-> {<<r.zid>> : r \in {x \in table : x.tid = params[1]}}]

\* cursor.execute(query, params) on the table created by db_create
\* (tid INTEGER PRIMARY KEY, zid INTEGER): the table after it and the rows
\* of the result set.  OR IGNORE skips a row that would violate the key.
execute(table, query, params) ==
    IF query = INSERT_OR_IGNORE
    THEN [table |-> IF \E r \in table : r.tid = params[1]
                    THEN table
                    ELSE table \cup {[tid |-> params[1], zid |-> params[2]]},
          rows  |-> {}]
    ELSE [table |-> table,
          rows  |-> {<<r.zid>> : r \in {x \in table : x.tid = params[1]}}]

\* cursor.fetchone(): a row of the result set, None when it is empty
fetchone(rows) == IF rows = {} THEN None ELSE CHOOSE r \in rows : TRUE

\* db_run_query: connect, execute, commit, fetch; an error of execute or commit
\* is rolled back and raised again; connect.cursor() on None raises
\* AttributeError outside the try block
db_run_query(table, query, params, read, fault) ==
    LET c == db_connect(fault)
        x == execute(table, query, params)
    IN  IF c.connection = None
        THEN [raised |-> "AttributeError", logs |-> c.logs, table |-> table, value |-> None]
        ELSE IF fault = "execute"
        THEN [raised |-> "sqlite3.Error", logs |-> c.logs, table |-> table, value |-> None]
        ELSE [raised |-> NoException, logs |-> c.logs, table |-> x.table,
              value  |-> IF read THEN fetchone(x.rows) ELSE None]

db_add_id(table, telegram_msg_id, zulip_msg_id, fault) ==
    db_run_query(table, INSERT_OR_IGNORE, <<telegram_msg_id, zulip_msg_id>>, FALSE, fault)

\* db_find_id that takes the row it finds out of the table
db_find_id_consuming(table, telegram_msg_id, fault) ==
    LET q == db_run_query(table, SELECT_ZID, <<telegram_msg_id>>, TRUE, fault)
    IN  [q EXCEPT !.table = {r \in q.table : r.tid # telegram_msg_id}]

db_find_id(table, telegram_msg_id, fault) ==
    db_run_query(table, SELECT_ZID, <<telegram_msg_id>>, TRUE, fault)

----------------------------------------------------------------------------
\* Date & time formats for printing

MonthNames == <<"January", "February", "March", "April", "May", "June", "July",
                "August", "September", "October", "November", "December">>

Pad2(n) == IF n < 10 THEN "0" \o ToString(n) ELSE ToString(n)

\* the civil date [y, m, d] of a local wall-clock reading (proleptic Gregorian)
CivilDate(wall) ==
    LET z   == (wall \div 86400) + 719468
        era == z \div 146097
        doe == z - era * 146097
        yoe == (doe - doe \div 1460 + doe \div 36524 - doe \div 146096) \div 365
        doy == doe - (365 * yoe + yoe \div 4 - yoe \div 100)
        mp  == (5 * doy + 2) \div 153
        d   == doy - (153 * mp + 2) \div 5 + 1
        m   == IF mp < 10 THEN mp + 3 ELSE mp - 9
        y   == yoe + era * 400 + (IF m <= 2 THEN 1 ELSE 0)
    IN  [y |-> y, m |-> m, d |-> d]

\* strftime(date_fmt), date_fmt = "%d %B %Y"
date_fmt(wall) ==
    LET c == CivilDate(wall)
    IN  Pad2(c.d) \o " " \o MonthNames[c.m] \o " " \o ToString(c.y)

\* strftime(time_fmt), time_fmt = "%H:%M"
time_fmt(wall) ==
    Pad2((wall % 86400) \div 3600) \o ":" \o Pad2((wall % 3600) \div 60)

----------------------------------------------------------------------------
\* Zulip

\* stream & topic where to forward the message; with an empty 'to' the topic
\* is the date of the message
stream == "From Telegram"
topic == ""
date_as_topic == (topic = "")

\* the values config['zulip']['to'] may have: empty, or a fixed topic
Topics == {"", "General"}

\* date_as_topic with the flag inverted
Config_inverted(to) == [stream |-> stream, topic |-> to, date_as_topic |-> (to # "")]

\* stream, topic and date_as_topic as set at start-up from a configuration
\* file whose 'to' is to
Config(to) == [stream |-> stream, topic |-> to, date_as_topic |-> (to = "")]

\* zulip_client.send_message / update_message: the result dict
zulip_result(answer, id) ==
    IF answer = "success"
    THEN [result |-> "success", id |-> id, code |-> "", msg |-> ""]
    ELSE [result |-> "error", id |-> 0, code |-> "BAD_REQUEST", msg |-> "rejected"]

\* check_response that takes every result for a success
check_response_accepts(result) == [ok |-> TRUE, logs |-> << >>]

check_response(result) ==
    IF result.result # "success"
    THEN [ok |-> FALSE, logs |-> <<LogRecord("ERROR", "zulip", result.code)>>]
    ELSE [ok |-> TRUE, logs |-> << >>]

\* " ".join(mentions)
RECURSIVE join(_)
join(strs) ==
    IF strs = << >> THEN ""
    ELSE IF Len(strs) = 1 THEN Head(strs)
    ELSE Head(strs) \o " " \o join(Tail(strs))

\* c.caption if c.caption else c.text, "" when both are None
caption_or_text(c) ==
    IF c.caption # None THEN c.caption[1].str
    ELSE IF c.text # None THEN c.text[1].str
    ELSE ""

\* text_of with the mentions joined to the text without a space in between
text_of_unspaced(content, mentions) ==
    (IF mentions # << >> THEN join(mentions) ELSE "") \o caption_or_text(content[1])

\* the variable text: the mentions, prepended to the message text
text_of(content, mentions) ==
    (IF mentions # << >> THEN join(mentions) \o " " ELSE "")
        \o caption_or_text(content[1])

\* reply_date_print with the two dates compared as they come (in UTC)
reply_date_print_utc(content) ==
    LET reply_date == astimezone(content[2][1].date)
    IN  IF date_fmt(content[2][1].date) = date_fmt(content[1].date)
        THEN time_fmt(reply_date)
        ELSE date_fmt(reply_date) \o ", " \o time_fmt(reply_date)

\* how the quoted reply shows the date of the original message: the date is
\* included if original message and reply do not have the same date
reply_date_print(content) ==
    LET date == astimezone(content[1].date)
        reply_date == astimezone(content[2][1].date)
    IN  IF date_fmt(reply_date) = date_fmt(date)
        THEN time_fmt(reply_date)
        ELSE date_fmt(reply_date) \o ", " \o time_fmt(reply_date)

\* the request dict built from content = [message, original_msg] under a
\* configuration
build_request(config, content, attachment_url, mentions) ==
    LET date   == astimezone(content[1].date)
        sender_name == content[1].from_user.first_name
        text   == text_of(content, mentions)
        body   ==
            IF content[2] = None
            THEN "*" \o sender_name \o ":*\n" \o text
            ELSE "> *" \o content[2][1].from_user.first_name \o " wrote ("
                   \o reply_date_print(content) \o "):*\n> "
                   \o caption_or_text(content[2][1]) \o "\n\n*" \o sender_name
                   \o ":*\n" \o text
        link   == IF attachment_url # None
                  THEN "\n[Link to file](" \o attachment_url[1] \o ")" ELSE ""
    IN  [type    |-> "stream",
         to      |-> config.stream,
         topic   |-> IF config.date_as_topic THEN date_fmt(date) ELSE config.topic,
         content |-> body \o link]

\* the edit-age test of the edit branch
can_edit(date, t_now) == astimezone(date) + _60min_delta >= astimezone(t_now)

\* submit_new that records the id without looking at check_response
submit_new_unchecked(table, next_id, message_id, request) ==
    UNION {
        {LET q == db_add_id(table, message_id, result.id, f)
         IN  [raised |-> q.raised, logs |-> check_response(result).logs \o q.logs,
              calls |-> <<[op |-> "send_message", request |-> request,
                           result |-> result]>>,
              db |-> <<[op |-> "db_add_id", tid |-> message_id,
                        zid |-> result.id, fault |-> f]>>,
              table |-> q.table] :
            f \in DbFaults} :
        result \in {zulip_result(a, next_id) : a \in ZulipAnswers}}

\* submit_new that looks the message up first and sends nothing when it has a
\* row already
submit_new_dedup(table, next_id, message_id, request) ==
    UNION {
        LET q == db_find_id(table, message_id, f)
            dbop == [op |-> "db_find_id", tid |-> message_id, zid |-> 0, fault |-> f]
        IN  IF q.raised # NoException
            THEN {[raised |-> q.raised, logs |-> q.logs, calls |-> << >>,
                   db |-> <<dbop>>, table |-> table]}
            ELSE IF q.value # None
            THEN {[raised |-> NoException, logs |-> q.logs, calls |-> << >>,
                   db |-> <<dbop>>, table |-> table]}
            ELSE UNION {
                LET call == [op |-> "send_message", request |-> request,
                             result |-> result]
                    cr   == check_response(result)
                IN  IF cr.ok
                    THEN {LET a == db_add_id(table, message_id, result.id, g)
                          IN  [raised |-> a.raised, logs |-> cr.logs \o a.logs,
                               calls |-> <<call>>,
                               db |-> <<dbop, [op |-> "db_add_id", tid |-> message_id,
                                               zid |-> result.id, fault |-> g]>>,
                               table |-> a.table] :
                            g \in DbFaults}
                    ELSE {[raised |-> NoException, logs |-> cr.logs,
                           calls |-> <<call>>, db |-> <<dbop>>, table |-> table]} :
                result \in {zulip_result(x, next_id) : x \in ZulipAnswers}} :
        f \in DbFaults}

\* zulip_client.send_message(request), then db_add_id on success: the
\* possible outcomes
submit_new(table, next_id, message_id, request) ==
    UNION {
        LET call == [op |-> "send_message", request |-> request, result |-> result]
            cr   == check_response(result)
        IN  IF cr.ok
            THEN {LET q == db_add_id(table, message_id, result.id, f)
                  IN  [raised |-> q.raised, logs |-> cr.logs \o q.logs,
                       calls |-> <<call>>,
                       db |-> <<[op |-> "db_add_id", tid |-> message_id,
                                 zid |-> result.id, fault |-> f]>>,
                       table |-> q.table] :
                    f \in DbFaults}
            ELSE {[raised |-> NoException, logs |-> cr.logs, calls |-> <<call>>,
                   db |-> << >>, table |-> table]} :
        result \in {zulip_result(a, next_id) : a \in ZulipAnswers}}

\* submit_edit that sends along the topic, derived from the time of the edit
submit_edit_retopic(table, message, request, t_now) ==
    IF can_edit(message.date, t_now)
    THEN UNION {
        LET q    == db_find_id(table, message.message_id, f)
            dbop == [op |-> "db_find_id", tid |-> message.message_id, zid |-> 0,
                     fault |-> f]
        IN  IF q.raised # NoException
            THEN {[raised |-> q.raised, logs |-> q.logs, calls |-> << >>,
                   db |-> <<dbop>>, table |-> q.table]}
            ELSE IF q.value = None
            THEN {[raised |-> "TypeError", logs |-> q.logs, calls |-> << >>,
                   db |-> <<dbop>>, table |-> q.table]}
            ELSE {[raised |-> NoException,
                   logs |-> q.logs \o check_response(result).logs,
                   calls |-> <<[op |-> "update_message",
                                request |-> [message_id |-> q.value[1],
                                             topic |-> date_fmt(astimezone(t_now)),
                                             content |-> request.content],
                                result |-> result]>>,
                   db |-> <<dbop>>, table |-> q.table] :
                    result \in {zulip_result(a, q.value[1]) : a \in ZulipAnswers}} :
        f \in DbFaults}
    ELSE {[raised |-> NoException,
           logs |-> <<LogRecord("WARNING", "edit older than 60 minutes",
                                message.from_user.first_name)>>,
           calls |-> << >>, db |-> << >>, table |-> table]}

\* zulip_client.update_message with the id found by db_find_id, inside the
\* edit window; a warning outside it: the possible outcomes
submit_edit(table, message, request, t_now) ==
    IF can_edit(message.date, t_now)
    THEN UNION {
        LET q    == db_find_id(table, message.message_id, f)
            dbop == [op |-> "db_find_id", tid |-> message.message_id, zid |-> 0,
                     fault |-> f]
        IN  IF q.raised # NoException
            THEN {[raised |-> q.raised, logs |-> q.logs, calls |-> << >>,
                   db |-> <<dbop>>, table |-> q.table]}
            ELSE IF q.value = None
            THEN \* db_find_id(message_id)[0] with db_find_id giving None
                 {[raised |-> "TypeError", logs |-> q.logs, calls |-> << >>,
                   db |-> <<dbop>>, table |-> q.table]}
            ELSE {[raised |-> NoException,
                   logs |-> q.logs \o check_response(result).logs,
                   calls |-> <<[op |-> "update_message",
                                request |-> [message_id |-> q.value[1],
                                             content |-> request.content],
                                result |-> result]>>,
                   db |-> <<dbop>>, table |-> q.table] :
                    result \in {zulip_result(a, q.value[1]) : a \in ZulipAnswers}} :
        f \in DbFaults}
    ELSE {[raised |-> NoException,
           logs |-> <<LogRecord("WARNING", "edit older than 60 minutes",
                                message.from_user.first_name)>>,
           calls |-> << >>, db |-> << >>, table |-> table]}

zulip_api_request(table, next_id, content, is_edit, attachment_url, mentions, t_now) ==
    LET request == build_request(Config(topic), content, attachment_url, mentions)
    IN  IF ~is_edit
        THEN submit_new(table, next_id, content[1].message_id, request)
        ELSE submit_edit(table, content[1], request, t_now)

----------------------------------------------------------------------------
\* Telegram bot

\* f"@_**{users_mapping[name]}**"
mention_token(name) == "@_**" \o users_mapping[name] \o "**"

\* one turn of the loop over message.entities; acc = [raised, mentioned_users]
resolve_entity(acc, entity, message) ==
    IF acc.raised # NoException THEN acc
    ELSE IF entity.type = "text_mention"
    THEN \* users_mapping[entity.user.first_name]: KeyError for a missing key
         IF entity.user \in DOMAIN users_mapping
         THEN [acc EXCEPT !.mentioned_users = Append(@, mention_token(entity.user))]
         ELSE [acc EXCEPT !.raised = "KeyError"]
    ELSE IF entity.type = "mention"
    THEN \* re.search(r'@([\w\d]+)', _text): the first @username of the text
         LET _text == IF message.caption # None THEN message.caption[1]
                      ELSE message.text[1]
         IN  IF _text.usernames # << >> /\ Head(_text.usernames) \in DOMAIN users_mapping
             THEN [acc EXCEPT !.mentioned_users =
                                  Append(@, mention_token(Head(_text.usernames)))]
             ELSE acc
    ELSE acc

RECURSIVE resolve_entities(_, _, _)
resolve_entities(acc, entities, message) ==
    IF entities = << >> THEN acc
    ELSE resolve_entities(resolve_entity(acc, Head(entities), message),
                          Tail(entities), message)

\* Does the message contain a @mention (or more than one)?
resolve_mentions(message) ==
    IF message.entities # << >> /\ DOMAIN users_mapping # {}
    THEN resolve_entities([raised |-> NoException, mentioned_users |-> << >>],
                          message.entities, message)
    ELSE [raised |-> NoException, mentioned_users |-> << >>]

\* file_id_of that takes any message without a text for a file
file_id_of_any(message) ==
    IF message.photo # << >> THEN Some(message.photo[Len(message.photo)].file_id)
    ELSE Some("file")

\* file_id_of without the branch of the voice messages
file_id_of_no_voice(message) ==
    IF message.photo # << >> THEN Some(message.photo[Len(message.photo)].file_id)
    ELSE IF message.document # None THEN Some(message.document[1].file_id)
    ELSE IF message.video # None THEN Some(message.video[1].file_id)
    ELSE IF message.video_note # None THEN Some(message.video_note[1].file_id)
    ELSE IF message.audio # None THEN Some(message.audio[1].file_id)
    ELSE None

\* the file to attach: photo, generic file, video, or audio are supported
file_id_of(message) ==
    IF message.photo # << >> THEN Some(message.photo[Len(message.photo)].file_id)
    ELSE IF message.document # None THEN Some(message.document[1].file_id)
    ELSE IF message.video # None THEN Some(message.video[1].file_id)
    ELSE IF message.video_note # None THEN Some(message.video_note[1].file_id)
    ELSE IF message.audio # None THEN Some(message.audio[1].file_id)
    ELSE IF message.voice # None THEN Some(message.voice[1].file_id)
    ELSE None

\* context.bot.get_file(file_id).file_path
file_path(file_id) == "https://api.telegram.org/file/" \o file_id

\* What one call of process_message may do: the exception that escapes it
\* (if any), the records it asks log() to write, its Zulip API calls, its
\* database accesses, its replies on Telegram, its get_file calls and the
\* table after it
process_message(table, next_id, update, t_now) ==
    LET message == update.message
        user == message.from_user
        is_edit == update.is_edit
        original_msg == message.reply_to_message
        m == resolve_mentions(message)
        file_id == file_id_of(message)
        quiet == [raised |-> NoException, logs |-> << >>, calls |-> << >>,
                  db |-> << >>, table |-> table]
        base == [mentioned_users |-> m.mentioned_users, replies |-> << >>,
                 get_file |-> << >>]
    IN  IF m.raised # NoException
        THEN {base @@ [quiet EXCEPT !.raised = m.raised]}
        ELSE IF message.text # None
        THEN {base @@ r :
                r \in zulip_api_request(table, next_id, <<message, original_msg>>,
                                        is_edit, None, m.mentioned_users, t_now)}
        ELSE IF file_id # None
        THEN {[base EXCEPT !.get_file = <<file_id[1]>>] @@ r :
                r \in zulip_api_request(table, next_id, <<message, original_msg>>,
                                        is_edit, Some(file_path(file_id[1])),
                                        m.mentioned_users, t_now)}
        ELSE {[base EXCEPT !.replies = <<[to |-> user.first_name,
                                          text |-> "cannot forward this content"]>>]
              @@ [quiet EXCEPT !.logs = <<LogRecord("WARNING", "unsupported content",
                                                    user.first_name)>>]}

----------------------------------------------------------------------------
\* The state machine

NoUpdate == [is_edit |-> FALSE, message |-> Message(1, 0, "other", << >>)]

\* the dispatcher waits for the next update
Idle == [op |-> "none", update |-> NoUpdate, at |-> 0, before |-> {},
         raised |-> NoException, logs |-> << >>, calls |-> << >>,
         db |-> << >>, replies |-> << >>, get_file |-> << >>,
         mentioned_users |-> << >>]

\* the dispatches that may run at the same time, and one that has not begun
Workers == 1 .. MaxWorkers
IdleWorker == [pc |-> "idle", tid |-> 0, zid |-> 0, fresh |-> FALSE,
               locked |-> FALSE, pending |-> {}]

\* no request is being built
NoTranslation == [content |-> <<NoUpdate.message, None>>, attachment_url |-> None,
                  mentions |-> << >>, requests |-> [to \in Topics |-> None]]

Init ==
    /\ now \in StartTimes
    /\ ticks = 0
    /\ messages = {}
    /\ zulip_last_id = 0
    /\ zulip_topics = << >>
    /\ last = Idle
    /\ tr = NoTranslation
    /\ workers = [w \in Workers |-> IdleWorker]

\* Zulip creates the message of a successful send_message and gives it the
\* next id; an update_message creates none
zulip_after(last_id, calls) ==
    IF calls # << >> /\ calls[1].op = "send_message"
                     /\ calls[1].result.result = "success"
    THEN last_id + 1
    ELSE last_id

\* What Zulip does with an API call it accepts: send_message creates a
\* message in the stream and topic of the request; update_message changes, of
\* the message it names, what the request carries (the content, which is not
\* kept here, and the topic if there is one)
zulip_apply(topics, calls) ==
    IF calls = << >> \/ calls[1].result.result # "success" THEN topics
    ELSE IF calls[1].op = "send_message"
    THEN Append(topics, [to |-> calls[1].request.to, topic |-> calls[1].request.topic])
    ELSE IF "topic" \in DOMAIN calls[1].request
    THEN [topics EXCEPT ![calls[1].request.message_id].topic = calls[1].request.topic]
    ELSE topics

\* The MessageHandler runs process_message on one update
ProcessMessage ==
    /\ last.op = "none"
    /\ \E update \in Updates(now) :
        \E r \in process_message(messages, zulip_last_id + 1, update, now) :
            /\ messages' = r.table
            /\ zulip_last_id' = zulip_after(zulip_last_id, r.calls)
            /\ zulip_last_id' <= MaxZulipId
            /\ zulip_topics' = zulip_apply(zulip_topics, r.calls)
            /\ last' = [op |-> "process_message", update |-> update, at |-> now,
                        before |-> messages, raised |-> r.raised, logs |-> r.logs,
                        calls |-> r.calls, db |-> r.db, replies |-> r.replies,
                        get_file |-> r.get_file,
                        mentioned_users |-> r.mentioned_users]
            /\ UNCHANGED <<now, ticks, tr, workers>>

\* The handler is over (it returned, or the dispatcher caught its exception);
\* the dispatcher goes on to the next update
Return ==
    /\ last.op # "none"
    /\ last' = Idle
    /\ UNCHANGED <<now, ticks, messages, zulip_last_id, zulip_topics, tr, workers>>

\* Time passes between two updates
Tick ==
    /\ last.op = "none"
    /\ ticks < MaxTicks
    /\ ticks' = ticks + 1
    /\ now' = now + _60min_delta
    /\ UNCHANGED <<messages, zulip_last_id, zulip_topics, last, tr, workers>>

Next == ProcessMessage \/ Return \/ Tick

Spec == Init /\ [][Next]_vars

----------------------------------------------------------------------------
\* The request builder on its own: the first part of zulip_api_request (up to
\* the submission) applied to the arguments process_message passes, once for
\* each configuration of the topic

\* when the messages to translate were written
TranslateDates == {Midsummer + _60min_delta, Midsummer + _60min_delta + 34200,
                   DstEnd + 600}

\* how long before its reply the replied-to message was written
ReplyAges == {60, _60min_delta, 34200, 86400}

\* a media message with a caption
Captioned(message, str) ==
    [message EXCEPT !.caption = Some([str |-> str, usernames |-> << >>])]

\* message.reply_to_message: a text, a photo with a caption, or something else
Originals(date) ==
    {None} \cup
    {Some(m) : m \in UNION {
        {Message(id, date - age, "text", << >>),
         Captioned(Message(id, date - age, "photo", << >>), "a view"),
         Message(id, date - age, "other", << >>)} :
        id \in MsgIds, age \in ReplyAges}}

\* the messages that get as far as zulip_api_request: texts whose mentions
\* resolve and photos, with or without a caption, in reply to something or not
Translatable ==
    UNION {
        {[m EXCEPT !.reply_to_message = o] :
            m \in {mm \in {Message(id, date, "text", ents) :
                              ents \in SeqsUpTo(Entity, MaxEntities)} :
                      resolve_mentions(mm).raised = NoException}
                  \cup {Message(id, date, "photo", << >>),
                        Captioned(Message(id, date, "photo", << >>), "look")},
            o \in Originals(date)} :
        id \in MsgIds, date \in TranslateDates}

\* the arguments of zulip_api_request as process_message sets them
Arguments(message) ==
    [content  |-> <<message, message.reply_to_message>>,
     attachment_url |-> IF message.text # None THEN None
                        ELSE Some(file_path(file_id_of(message)[1])),
     mentions |-> resolve_mentions(message).mentioned_users,
     requests |-> [to \in Topics |-> None]]

InitTranslate ==
    /\ now = Midsummer
    /\ ticks = 0
    /\ messages = {}
    /\ zulip_last_id = 0
    /\ zulip_topics = << >>
    /\ last = Idle
    /\ tr \in {Arguments(m) : m \in Translatable}
    /\ workers = [w \in Workers |-> IdleWorker]

\* zulip_api_request builds the request dict under one configuration
Translate ==
    /\ \E to \in Topics :
        /\ tr.requests[to] = None
        /\ tr' = [tr EXCEPT !.requests[to] =
                      Some(build_request(Config(to), tr.content, tr.attachment_url,
                                         tr.mentions))]
    /\ UNCHANGED <<now, ticks, messages, zulip_last_id, zulip_topics, last, workers>>

NextTranslate == Translate

SpecTranslate == InitTranslate /\ [][NextTranslate]_vars

----------------------------------------------------------------------------
\* Dispatches that run at the same time: db_add_id step by step.  Every
\* db_run_query works on a connection of its own; sqlite lets one connection
\* at a time write (the others get "database is locked"), shows the others
\* nothing of a transaction before its commit, and discards a transaction
\* whose connection goes away.

InitConcurrent ==
    /\ now = Midsummer
    /\ ticks = 0
    /\ messages = {}
    /\ zulip_last_id = 0
    /\ zulip_topics = << >>
    /\ last = Idle
    /\ tr = NoTranslation
    /\ workers = [w \in Workers |-> IdleWorker]

\* another connection has a write transaction open
LockedByOther(w) == \E o \in Workers \ {w} : workers[o].locked

\* zulip_api_request of a new message: Zulip accepts send_message and
\* db_add_id(message_id, result['id']) is about to run
Dispatch(w) ==
    /\ workers[w].pc = "idle"
    /\ zulip_last_id < MaxZulipId
    /\ \E tid \in MsgIds :
        LET request == build_request(Config(topic),
                                     <<Message(tid, now, "text", << >>), None>>,
                                     None, << >>)
            result  == zulip_result("success", zulip_last_id + 1)
            call    == [op |-> "send_message", request |-> request, result |-> result]
        IN  /\ check_response(result).ok
            /\ zulip_last_id' = zulip_after(zulip_last_id, <<call>>)
            /\ zulip_topics' = zulip_apply(zulip_topics, <<call>>)
            /\ workers' = [workers EXCEPT ![w] =
                              [pc |-> "db_add_id", tid |-> tid, zid |-> result.id,
                               fresh |-> \A r \in messages : r.tid # tid,
                               locked |-> FALSE, pending |-> {}]]
    /\ UNCHANGED <<now, ticks, messages, last, tr>>

\* db_run_query: connect = db_connect(); cursor = connect.cursor()
DbConnect(w) ==
    /\ workers[w].pc = "db_add_id"
    /\ \E fault \in {"none", "connect"} :
        workers' = [workers EXCEPT ![w].pc =
                        IF db_connect(fault).connection = None
                        THEN "raised" ELSE "connected"]
    /\ UNCHANGED <<now, ticks, messages, zulip_last_id, zulip_topics, last, tr>>

\* cursor.execute(query, params): the INSERT opens a write transaction and
\* its row, if it is not ignored, waits for the commit; it fails when another
\* connection is writing, or for another error of sqlite
DbExecute(w) ==
    /\ workers[w].pc = "connected"
    /\ \/ /\ ~LockedByOther(w)
          /\ workers' = [workers EXCEPT
                ![w].pc = "executed",
                ![w].locked = TRUE,
                ![w].pending =
                    execute(messages, INSERT_OR_IGNORE,
                            <<workers[w].tid, workers[w].zid>>).table \ messages]
       \/ workers' = [workers EXCEPT ![w].pc = "except"]
    /\ UNCHANGED <<now, ticks, messages, zulip_last_id, zulip_topics, last, tr>>

\* cursor.connection.commit(): the transaction becomes the table, or fails
DbCommit(w) ==
    /\ workers[w].pc = "executed"
    /\ \/ /\ messages' = messages \cup workers[w].pending
          /\ workers' = [workers EXCEPT ![w].pc = "done", ![w].locked = FALSE,
                                         ![w].pending = {}]
       \/ /\ workers' = [workers EXCEPT ![w].pc = "except"]
          /\ UNCHANGED messages
    /\ UNCHANGED <<now, ticks, zulip_last_id, zulip_topics, last, tr>>

\* except: cursor.connection.rollback(); raise
DbRollback(w) ==
    /\ workers[w].pc = "except"
    /\ workers' = [workers EXCEPT ![w].pc = "raised", ![w].locked = FALSE,
                                   ![w].pending = {}]
    /\ UNCHANGED <<now, ticks, messages, zulip_last_id, zulip_topics, last, tr>>

\* The dispatch is abandoned where it is (the process is stopped): sqlite
\* discards the transaction that was not committed
Abandon(w) ==
    /\ workers[w].pc \in {"db_add_id", "connected", "executed", "except"}
    /\ workers' = [workers EXCEPT ![w].pc = "abandoned", ![w].locked = FALSE,
                                   ![w].pending = {}]
    /\ UNCHANGED <<now, ticks, messages, zulip_last_id, zulip_topics, last, tr>>

NextConcurrent ==
    \E w \in Workers :
        \/ Dispatch(w)
        \/ DbConnect(w)
        \/ DbExecute(w)
        \/ DbCommit(w)
        \/ DbRollback(w)
        \/ Abandon(w)

SpecConcurrent == InitConcurrent /\ [][NextConcurrent]_vars

----------------------------------------------------------------------------
\* Properties

\* the rows of a table for one Telegram message id
RowsOf(table, tid) == {r \in table : r.tid = tid}

\* lookup: what db_find_id gives when sqlite works
lookup(table, tid) == db_find_id(table, tid, "none").value

Dispatched == last.op = "process_message"
LastMsg == last.update.message

\* the database accesses of the last call that were inserts without an sqlite
\* fault, for a message id that had a row already
DuplicateInserts ==
    {i \in 1 .. Len(last.db) :
        /\ last.db[i].op = "db_add_id"
        /\ last.db[i].fault = "none"
        /\ RowsOf(last.before, last.db[i].tid) # {}}

\* C1: insert is idempotent and the first write wins: no message id ever has
\* two rows, and an insert for a message id that has a row already (sqlite
\* working) leaves the table as it was, so that the lookup still gives the
\* first Zulip id, and raises nothing.
C1_InsertIdempotent ==
    /\ \A s \in MsgIds : Cardinality(RowsOf(messages, s)) <= 1
    /\ Dispatched =>
         \A i \in DuplicateInserts :
            /\ messages = last.before
            /\ lookup(messages, last.db[i].tid) = lookup(last.before, last.db[i].tid)
            /\ lookup(messages, last.db[i].tid) # None
            /\ last.raised = NoException

\* C1 witness: a second insert for a mapped message id, with another Zulip id
C1_Witness ==
    /\ Dispatched
    /\ \E i \in DuplicateInserts :
          /\ lookup(last.before, last.db[i].tid) # <<last.db[i].zid>>
          /\ lookup(messages, last.db[i].tid) # <<last.db[i].zid>>

\* the last call sent a new message and Zulip rejected it
FailedSend(l) ==
    /\ l.op = "process_message"
    /\ l.calls # << >>
    /\ l.calls[1].op = "send_message"
    /\ l.calls[1].result.result # "success"

\* the call l sent the new message tid and Zulip accepted it as zid
SucceededSend(l, tid, zid) ==
    /\ l.op = "process_message"
    /\ l.update.message.message_id = tid
    /\ l.calls # << >>
    /\ l.calls[1].op = "send_message"
    /\ l.calls[1].result.result = "success"
    /\ l.calls[1].result.id = zid

\* C2: every row is written by a call whose send_message for that Telegram
\* message succeeded with that Zulip id, so every row names a message that
\* exists in Zulip; a call whose send_message is rejected leaves the table as
\* it was.
C2_RowsAfterSuccess ==
    /\ [](\A r \in messages : r.zid \in 1 .. zulip_last_id)
    /\ [][/\ \A r \in messages' \ messages : SucceededSend(last', r.tid, r.zid)
          /\ FailedSend(last') => messages' = messages]_vars

\* C2 witness: a rejected send for a message id that has no row
C2_Witness ==
    /\ FailedSend(last)
    /\ RowsOf(messages, LastMsg.message_id) = {}
    /\ RowsOf(last.before, LastMsg.message_id) = {}

\* the last call handled an edit / a new message
IsEdit == Dispatched /\ last.update.is_edit
IsNew == Dispatched /\ ~last.update.is_edit

\* the edited message was at most 60 minutes old when its edit arrived
InWindow == last.at <= LastMsg.date + _60min_delta

\* log() was asked for a record of this severity
Logged(severity) == \E i \in 1 .. Len(last.logs) : last.logs[i].severity = severity

\* the last update got as far as zulip_api_request
Submitted ==
    /\ Dispatched
    /\ last.raised # "KeyError"
    /\ LastMsg.text # None \/ last.get_file # << >>

\* C3: after a call that sent a new message with no row with success as d and
\* returned, the lookup gives d; and an edit of a message with a row, at most
\* 60 minutes old, makes one update_message call, with the Zulip id of that
\* row.
C3_EditCorrelation ==
    /\ \A d \in 1 .. MaxZulipId :
         (/\ IsNew
          /\ last.raised = NoException
          /\ RowsOf(last.before, LastMsg.message_id) = {}
          /\ SucceededSend(last, LastMsg.message_id, d))
         => lookup(messages, LastMsg.message_id) = <<d>>
    /\ (IsEdit /\ Submitted /\ InWindow
            /\ RowsOf(last.before, LastMsg.message_id) # {})
         => /\ Len(last.calls) = 1
            /\ last.calls[1].op = "update_message"
            /\ <<last.calls[1].request.message_id>>
                 = lookup(last.before, LastMsg.message_id)

\* C4: an edit of a message older than 60 minutes makes no Zulip call and no
\* database access; it logs one warning that names the sender, and returns.
C4_ExpiredEditDropped ==
    (IsEdit /\ Submitted /\ ~InWindow)
    => /\ last.calls = << >>
       /\ last.db = << >>
       /\ Len(last.logs) = 1
       /\ last.logs[1].severity = "WARNING"
       /\ last.logs[1].who = LastMsg.from_user.first_name
       /\ last.raised = NoException

\* C5: an edit goes on to the lookup exactly when the message is at most 60
\* minutes old (now <= date + 60 minutes), the boundary included.
C5_WindowInclusive ==
    (IsEdit /\ Submitted) => (last.db # << >> <=> InWindow)

\* sqlite worked during the last call
StorageWorked ==
    \A i \in 1 .. Len(last.db) : last.db[i].fault = "none"

\* C6: an edit, inside the window, of a message id without a row (sqlite
\* working) logs a warning, makes no Zulip call and returns normally.
C6_UnmappedEditWarned ==
    (IsEdit /\ Submitted /\ InWindow /\ StorageWorked
        /\ RowsOf(last.before, LastMsg.message_id) = {})
    => /\ Logged("WARNING")
       /\ last.calls = << >>
       /\ last.raised = NoException

\* sqlite failed during the last call
StorageFailed ==
    Dispatched /\ \E i \in 1 .. Len(last.db) : last.db[i].fault # "none"

\* C9: an sqlite error does not escape process_message: it is logged; a failed
\* lookup of an edit ends like a missing row (a warning, no update_message),
\* and a failed insert leaves the table as it was.
C9_StorageErrorContained ==
    StorageFailed
    => /\ last.raised = NoException
       /\ Logged("ERROR")
       /\ IsEdit => (Logged("WARNING") /\ last.calls = << >>)
       /\ IsNew => messages = last.before

\* the tokens the entities of a message stand for: one for each entity whose
\* user is in users_mapping, none for the others
RECURSIVE ExpectedMentions(_)
ExpectedMentions(ents) ==
    IF ents = << >> THEN << >>
    ELSE (IF Head(ents).user \in DOMAIN users_mapping
          THEN <<"@_**" \o users_mapping[Head(ents).user] \o "**">> ELSE << >>)
         \o ExpectedMentions(Tail(ents))

\* C10: resolving the mentions raises nothing: every entity whose user is in
\* users_mapping gives one token, the others give none, and the message goes
\* on to zulip_api_request.
C10_MentionsNeverRaise ==
    (Dispatched /\ LastMsg.text # None)
    => /\ last.raised # "KeyError"
       /\ last.mentioned_users = ExpectedMentions(LastMsg.entities)
       /\ Submitted

\* the message has no text and none of the six kinds of media
Unsupported(message) ==
    /\ message.text = None
    /\ message.photo = << >>
    /\ message.document = None
    /\ message.video = None
    /\ message.video_note = None
    /\ message.audio = None
    /\ message.voice = None

\* C7: for a message with no text and no known media the sender gets the
\* "cannot forward" reply on Telegram, no Zulip call is made (and no file is
\* asked for), and the table stays as it was.
C7_UnsupportedNotified ==
    (Dispatched /\ Unsupported(LastMsg))
    => /\ Len(last.replies) = 1
       /\ last.replies[1].to = LastMsg.from_user.first_name
       /\ last.calls = << >>
       /\ last.get_file = << >>
       /\ last.db = << >>
       /\ messages = last.before

\* C7 witness: an unsupported message was answered while the table has a row
C7_Witness ==
    /\ Dispatched
    /\ Unsupported(LastMsg)
    /\ last.replies # << >>
    /\ messages # {}

\* Zulip rejected the API call of the last update
Rejected ==
    /\ Dispatched
    /\ last.calls # << >>
    /\ last.calls[1].result.result # "success"

\* C8: an update makes at most one Zulip API call; when Zulip rejects it, an
\* error is logged, the table stays as it was (nothing is inserted) and
\* process_message returns normally.
C8_RejectionLoggedNoRetry ==
    /\ Dispatched => Len(last.calls) <= 1
    /\ Rejected
       => /\ Logged("ERROR")
          /\ messages = last.before
          /\ \A i \in 1 .. Len(last.db) : last.db[i].op # "db_add_id"
          /\ last.raised = NoException

\* C8 witness: Zulip rejected the update_message of an edit
C8_Witness ==
    /\ Rejected
    /\ IsEdit
    /\ last.calls[1].op = "update_message"
    /\ Logged("ERROR")

\* the message has no text and carries one of the six kinds of media
CarriesMedia(message) == message.text = None /\ ~Unsupported(message)

\* C11 (as claimed): get_file is called only for a new message that carries
\* media; no edit, inside or outside the edit window, calls it.
C11_ResolverOnlyOnNew ==
    (Dispatched /\ last.get_file # << >>)
    => /\ ~last.update.is_edit
       /\ CarriesMedia(LastMsg)

\* C11 (amended): get_file is called, once, exactly for the updates that carry
\* media: for a new message and for an edit alike, and for an edit whether it
\* is inside or outside the edit window; an update with a text or with
\* unsupported content never calls it.
C11_ResolverOnMedia ==
    Dispatched
    => /\ Len(last.get_file) <= 1
       /\ last.get_file # << >> <=> CarriesMedia(LastMsg)

\* C11 witness: the edit of a voice message, older than 60 minutes, for which
\* get_file was called and the warning logged
C11_Witness ==
    /\ IsEdit
    /\ ~InWindow
    /\ LastMsg.voice # None
    /\ last.get_file # << >>
    /\ Logged("WARNING")
    /\ last.calls = << >>

\* the last call had Zulip update a message
Updated ==
    /\ IsEdit
    /\ last.calls # << >>
    /\ last.calls[1].op = "update_message"
    /\ last.calls[1].result.result = "success"

\* C15: an edit never moves a message: every message of the Zulip stream
\* keeps the stream and the topic it was sent to, whatever is dispatched,
\* because the update_message request of an edit carries the id of the
\* message found and the new content, nothing else.
C15_EditKeepsTopic ==
    /\ [](IsEdit => \A i \in 1 .. Len(last.calls) :
                       /\ last.calls[i].op = "update_message"
                       /\ DOMAIN last.calls[i].request = {"message_id", "content"})
    /\ [][\A id \in 1 .. zulip_last_id :
             /\ id <= Len(zulip_topics')
             /\ zulip_topics'[id] = zulip_topics[id]]_vars

\* C15 witness: Zulip updated a message on a later local day than the one it
\* was sent on, which is still its topic
C15_Witness ==
    /\ Updated
    /\ zulip_topics[last.calls[1].request.message_id].topic
         # date_fmt(astimezone(last.at))

\* C16: the table only grows and its rows never change: no call of
\* process_message takes a row away or rewrites one, and an edit (too old,
\* without a row, updated or rejected by Zulip, or failing on the way) makes
\* no insert and leaves the table exactly as it was.
C16_StoreOnlyGrows ==
    /\ [][messages \subseteq messages']_vars
    /\ [](IsEdit => /\ messages = last.before
                    /\ \A i \in 1 .. Len(last.db) : last.db[i].op = "db_find_id")

\* C16 witness: Zulip updated the message of a row, and the row is as before
C16_Witness ==
    /\ Updated
    /\ RowsOf(last.before, LastMsg.message_id) # {}
    /\ RowsOf(messages, LastMsg.message_id) = RowsOf(last.before, LastMsg.message_id)

\* C18: a new message is sent without a look at the table: when a message
\* id that has a row already is dispatched again as a new message, exactly
\* one send_message is made and no lookup; the row stays as it was, whatever
\* id Zulip gives to the second copy; and the update_message of an edit
\* always names the Zulip id of the row, the one of the first successful
\* send.
C18_ResendKeepsFirst ==
    /\ (IsNew /\ Submitted /\ RowsOf(last.before, LastMsg.message_id) # {})
       => /\ Len(last.calls) = 1
          /\ last.calls[1].op = "send_message"
          /\ \A i \in 1 .. Len(last.db) : last.db[i].op = "db_add_id"
          /\ messages = last.before
          /\ last.calls[1].result.result = "success"
               => /\ <<last.calls[1].result.id>> # lookup(messages, LastMsg.message_id)
                  /\ zulip_last_id = last.calls[1].result.id
    /\ IsEdit
       => \A i \in 1 .. Len(last.calls) :
            /\ last.calls[i].op = "update_message"
            /\ <<last.calls[i].request.message_id>>
                 = lookup(messages, LastMsg.message_id)
            /\ messages = last.before

\* C18 witness: a message id with a row was sent again, Zulip accepted the
\* second copy under a new id, and the lookup still gives the first id
C18_Witness ==
    /\ IsNew
    /\ RowsOf(last.before, LastMsg.message_id) # {}
    /\ last.calls # << >>
    /\ last.calls[1].result.result = "success"
    /\ last.calls[1].result.id = zulip_last_id
    /\ lookup(messages, LastMsg.message_id) = lookup(last.before, LastMsg.message_id)
    /\ lookup(messages, LastMsg.message_id) # <<zulip_last_id>>

\* the dispatch w has committed its insert
Inserted(w) == workers[w].pc = "done"

\* C17: with dispatches that run at the same time, and dispatches abandoned
\* anywhere, the table holds for every message id no row or exactly one
\* complete row (a tid and the id of a message Zulip holds); a row becomes
\* visible by a commit only, whole, and is the row of the committing
\* dispatch; and inserts for one message id that all started without a row
\* leave, once one of them is committed, one row with the Zulip id of one of
\* those that are committed: with two of them, one of the two ids.
C17_AtomicInsert ==
    /\ [](\A tid \in MsgIds : Cardinality(RowsOf(messages, tid)) <= 1)
    /\ [](\A r \in messages :
            /\ DOMAIN r = {"tid", "zid"}
            /\ r.tid \in MsgIds
            /\ r.zid \in 1 .. zulip_last_id)
    /\ [](\A w \in Workers : workers[w].pending \cap messages = {})
    /\ [](\A w1 \in Workers :
            (Inserted(w1) /\ workers[w1].fresh)
            => \E w \in Workers :
                  /\ Inserted(w) /\ workers[w].fresh
                  /\ workers[w].tid = workers[w1].tid
                  /\ RowsOf(messages, workers[w1].tid)
                       = {[tid |-> workers[w].tid, zid |-> workers[w].zid]})
    /\ [][messages' # messages
            => \E w \in Workers :
                  /\ workers[w].pc = "executed"
                  /\ workers'[w].pc = "done"
                  /\ messages' = messages \cup {[tid |-> workers[w].tid,
                                                 zid |-> workers[w].zid]}]_vars

\* C17 witness: two dispatches of one message id ran at the same time with
\* two Zulip ids, both committed, and the table has one row for it
C17_Witness ==
    \E w1, w2 \in Workers :
        /\ w1 # w2
        /\ Inserted(w1) /\ Inserted(w2)
        /\ workers[w1].tid = workers[w2].tid
        /\ workers[w1].fresh /\ workers[w2].fresh
        /\ workers[w1].zid # workers[w2].zid
        /\ Cardinality(RowsOf(messages, workers[w1].tid)) = 1

----------------------------------------------------------------------------
\* Properties of the request builder

\* the request was built under the configuration whose 'to' is to
Translated(to) == tr.requests[to] # None
Request(to) == tr.requests[to][1]

\* the message being translated and the one it replies to
TrMsg == tr.content[1]
IsReply == tr.content[2] # None

StartsWith(s, t) == Len(s) >= Len(t) /\ SubSeq(s, 1, Len(t)) = t
EndsWith(s, t) == Len(s) >= Len(t) /\ SubSeq(s, Len(s) - Len(t) + 1, Len(s)) = t

\* the mention prefix: every token followed by one space
RECURSIVE MentionPrefix(_)
MentionPrefix(tokens) ==
    IF tokens = << >> THEN ""
    ELSE Head(tokens) \o " " \o MentionPrefix(Tail(tokens))

\* the header line of the sender and the link of the attachment
SenderHeader == "*" \o TrMsg.from_user.first_name \o ":*\n"
LinkSuffix ==
    IF tr.attachment_url = None THEN ""
    ELSE "\n[Link to file](" \o tr.attachment_url[1] \o ")"

\* C12 (as claimed): with mentions, the content begins with the mention
\* tokens, joined by spaces and followed by one space, before the header of
\* the sender and the quoted block.
C12_MentionsFirst ==
    \A to \in Topics :
        (Translated(to) /\ tr.mentions # << >>)
        => StartsWith(Request(to).content, MentionPrefix(tr.mentions))

\* C12 (amended): with mentions, the mention tokens, joined by spaces and
\* followed by one space, come right before the text of the message and
\* right after the header of the sender: the content ends with header,
\* prefix, text (and link); without a reply that is the whole content, and
\* with a reply the quoted block comes first.
C12_MentionsBeforeText ==
    \A to \in Topics :
        (Translated(to) /\ tr.mentions # << >>)
        => LET tail == SenderHeader \o MentionPrefix(tr.mentions)
                         \o caption_or_text(TrMsg) \o LinkSuffix
           IN  /\ EndsWith(Request(to).content, tail)
               /\ ~IsReply => Request(to).content = tail
               /\ IsReply => /\ StartsWith(Request(to).content, "> *")
                             /\ Len(Request(to).content) > Len(tail)

\* C12 witness: a reply with a mention was translated
C12_Witness ==
    /\ \E to \in Topics : Translated(to)
    /\ tr.mentions # << >>
    /\ IsReply

\* the number of the local calendar day (in days since 1970-01-01) an instant
\* falls on, and how the days of the model read as day, full month name, year
LocalDay(t) == (t + utcoffset(t)) \div 86400
DateOfDay == 18793 :> "15 June 2021" @@ 18794 :> "16 June 2021"
             @@ 18930 :> "30 October 2021" @@ 18931 :> "31 October 2021"

C14_ReplyDatePrint ==
    \A to \in Topics :
        (Translated(to) /\ IsReply)
        => LET o     == tr.content[2][1]
               hhmm  == time_fmt(astimezone(o.date))
               shown == IF LocalDay(o.date) = LocalDay(TrMsg.date)
                        THEN hhmm
                        ELSE DateOfDay[LocalDay(o.date)] \o ", " \o hhmm
           IN  /\ Len(hhmm) = 5
               /\ SubSeq(hhmm, 3, 3) = ":"
               /\ StartsWith(Request(to).content,
                             "> *" \o o.from_user.first_name \o " wrote ("
                                \o shown \o "):*\n> ")

\* C14 witness: a reply to a message of the same UTC day but of the local day
\* before was translated
C14_Witness ==
    /\ \E to \in Topics : Translated(to)
    /\ IsReply
    /\ tr.content[2][1].date \div 86400 = TrMsg.date \div 86400
    /\ LocalDay(tr.content[2][1].date) # LocalDay(TrMsg.date)

====
